---- MODULE Spec2Model ----
(***************************************************************************)
(* Model of the rollup engine of meteobridge2influxdb3                     *)
(* (src/services/rollup_service.py, WeatherRollupService).                 *)
(*                                                                         *)
(* Representation choices.                                                 *)
(*  - A datetime is an integer number of ticks since the epoch; a tick is  *)
(*    1/TicksPerHour of an hour.  Its calendar fields (day, hour, tick of  *)
(*    the hour) are computed by Fields and put back together by            *)
(*    FromFields; isoformat() is the field tuple, parsing it recomposes.   *)
(*  - A float is an exact value [kind |-> "float", num, den, root]: the    *)
(*    root-th root of num/den in lowest terms; the float NaN (pandas'      *)
(*    missing marker) is the record NaN.  Raw samples are whole numbers.   *)
(*    The circular mean of directions is exact where double arithmetic     *)
(*    makes it so (0, 90, 270, 360) and otherwise a float known to lie     *)
(*    strictly between two whole degrees, [form |-> "arc", lo, hi].        *)
(*  - A pandas Series is a sequence of [t |-> timestamp, v |-> value] in   *)
(*    index order; a DataFrame is its index, its set of columns and one    *)
(*    value sequence per column.                                           *)
(*  - The metrics dict is a function from key to value; a value is a       *)
(*    float, NaN, None, [kind |-> "time", iso] (an ISO timestamp string)   *)
(*    or [kind |-> "cardinal", label] (a compass label).                   *)
(*  - Under SpecTwo, which runs two invocations side by side, each local  *)
(*    of an invocation (pc .. result) is a function of the invocation.     *)
(***************************************************************************)
EXTENDS Integers, Sequences, FiniteSets, TLC

VARIABLES
    pc,          \* position of the invocation / of the function under study
    kind,        \* "hourly" (compute_hourly_rollup) or "daily" (compute_daily_rollup)
    target,      \* the caller's target_hour / target_date, or None
    now,         \* datetime.utcnow() as read by the invocation
    station,     \* the station argument
    raw,         \* the raw table: a set of rows [station, time]
    fault,       \* what the storage engine does to this invocation's calls
    start_time,  \* local start_time
    end_time,    \* local end_time
    df,          \* the DataFrame returned by _query_raw_data (or None)
    metrics,     \* the dict returned by _compute_rollup_metrics
    result,      \* the value the entry point returns, or "raised"
    rollups,     \* rows appended to the rollup tables, in write order
    steps,       \* the calls made by the invocation, in order
    series,      \* argument of _find_value_with_time
    agg_func,    \* np.min or np.max, as "min" / "max"
    found,       \* the tuple _find_value_with_time returned
    angle,       \* argument of _get_cardinal_direction
    label        \* the string _get_cardinal_direction returned

vars == <<pc, kind, target, now, station, raw, fault, start_time, end_time,
          df, metrics, result, rollups, steps, series, agg_func, found,
          angle, label>>

None == [kind |-> "none"]
NaN == [kind |-> "nan"]

-----------------------------------------------------------------------------
(* Bounds of the model *)

\* resolution of the clock: ticks in one hour
TicksPerHour == 2
\* rows of a window handed to the aggregator
MaxRows == 3
\* a series handed to _find_value_with_time has up to MaxSeriesLen + 1 entries
MaxSeriesLen == 3
\* its values are 1..MaxSample or missing
MaxSample == 3
\* _get_cardinal_direction is applied to -MaxDegrees .. MaxDegrees, in quarters
MaxDegrees == 720
\* rows of a window of wind directions
MaxDirs == 5
\* days the scheduler of rollup_main is followed for
SchedDays == 1

(* Program constants *)

HoursPerDay == 24
WIND_INTERVAL == 10
SecondsPerMinute == 60
MinutesPerHour == 60

TicksPerDay == HoursPerDay * TicksPerHour

-----------------------------------------------------------------------------
(* datetime *)

Fields(t) ==
    [day |-> t \div TicksPerDay,
     hour |-> (t % TicksPerDay) \div TicksPerHour,
     tick |-> t % TicksPerHour]

FromFields(f) == f.day * TicksPerDay + f.hour * TicksPerHour + f.tick

\* datetime.isoformat(): the text of the calendar fields
IsoFormat(t) == <<Fields(t).day, Fields(t).hour, Fields(t).tick>>

\* parsing of an ISO text by the store and by pd.to_datetime
ParseIso(s) == FromFields([day |-> s[1], hour |-> s[2], tick |-> s[3]])

\* now.replace(minute=0, second=0, microsecond=0)
ReplaceMinuteSecond(t) == FromFields([Fields(t) EXCEPT !.tick = 0])

\* dt.replace(hour=0, minute=0, second=0, microsecond=0)
ReplaceHourMinuteSecond(t) == FromFields([Fields(t) EXCEPT !.hour = 0, !.tick = 0])

HourDelta == TicksPerHour
DayDelta == TicksPerDay

-----------------------------------------------------------------------------
(* exact arithmetic on the floats computed from samples *)

Abs(x) == IF x < 0 THEN -x ELSE x

RECURSIVE Gcd(_, _)
Gcd(a, b) == IF b = 0 THEN a ELSE Gcd(b, a % b)

\* num/den in lowest terms, den > 0
Rat(num, den) ==
    LET g == Gcd(Abs(num), Abs(den))
        s == IF den < 0 THEN -1 ELSE 1
    IN  [kind |-> "float", num |-> (s * num) \div g, den |-> (s * den) \div g, root |-> 1]

Float(x) == Rat(x, 1)

RatMul(a, b) == Rat(a.num * b.num, a.den * b.den)

RatAdd(a, b) == Rat(a.num * b.den + b.num * a.den, a.den * b.den)

RatSub(a, b) == Rat(a.num * b.den - b.num * a.den, a.den * b.den)

\* Python round() and numpy/pandas round(): nearest integer, halves to even
RoundHalfEven(a) ==
    LET fl == a.num \div a.den
        twice == 2 * (a.num - fl * a.den)
    IN  IF twice < a.den THEN fl
        ELSE IF twice > a.den THEN fl + 1
        ELSE IF fl % 2 = 0 THEN fl ELSE fl + 1

IsNaN(v) == v.kind = "nan"

\* a < b for two floats that are not NaN
RatLess(a, b) == a.num * b.den < b.num * a.den

\* a == b as pandas compares floats: NaN equals nothing
RatEq(a, b) == ~IsNaN(a) /\ ~IsNaN(b) /\ a.num * b.den = b.num * a.den

-----------------------------------------------------------------------------
(* pandas Series: a sequence of [t |-> timestamp, v |-> float or NaN] *)

SeqRange(s) == {s[i] : i \in 1..Len(s)}

\* Series.dropna()
DropNa(s) == SelectSeq(s, LAMBDA e : ~IsNaN(e.v))

\* Series.isna().all()
AllNa(s) == \A i \in 1..Len(s) : IsNaN(s[i].v)

\* np.min(series) / np.max(series): Series.min() / Series.max(), which skip NaN
RECURSIVE Reduce(_, _, _)
Reduce(s, agg, acc) ==
    IF Len(s) = 0 THEN acc
    ELSE LET x == Head(s).v
             next == IF IsNaN(x) THEN acc
                     ELSE IF IsNaN(acc) THEN x
                     ELSE IF agg = "min" /\ RatLess(x, acc) THEN x
                     ELSE IF agg = "max" /\ RatLess(acc, x) THEN x
                     ELSE acc
         IN  Reduce(Tail(s), agg, next)

ApplyAgg(s, agg) == Reduce(s, agg, NaN)

\* Timestamp.isoformat() as stored in the metrics dict
TimeStr(t) == [kind |-> "time", iso |-> IsoFormat(t)]

\* the same function returning the timestamp of the LAST occurrence
FindValueWithTimeLast(s, agg) ==
    IF Len(s) = 0 \/ AllNa(s) THEN <<None, None>>
    ELSE LET value == ApplyAgg(s, agg)
             filtered == SelectSeq(s, LAMBDA e : RatEq(e.v, value))
         IN  IF Len(filtered) = 0 THEN <<value, None>>
             ELSE <<value, TimeStr(filtered[Len(filtered)].t)>>

\* the same function giving up as soon as ANY value is missing
FindValueWithTimeAnyNa(s, agg) ==
    IF Len(s) = 0 \/ (\E i \in 1..Len(s) : IsNaN(s[i].v)) THEN <<None, None>>
    ELSE LET value == ApplyAgg(s, agg)
             filtered == SelectSeq(s, LAMBDA e : RatEq(e.v, value))
         IN  IF Len(filtered) = 0 THEN <<value, None>>
             ELSE <<value, TimeStr(filtered[1].t)>>

\* _find_value_with_time(series, agg_func)
FindValueWithTime(s, agg) ==
    IF Len(s) = 0 \/ AllNa(s) THEN <<None, None>>
    ELSE LET value == ApplyAgg(s, agg)
             filtered == SelectSeq(s, LAMBDA e : RatEq(e.v, value))
         IN  IF Len(filtered) = 0 THEN <<value, None>>
             ELSE <<value, TimeStr(filtered[1].t)>>

-----------------------------------------------------------------------------
(* statistics of a Series without NaN *)

RECURSIVE SumOf(_)
SumOf(s) == IF Len(s) = 0 THEN Float(0) ELSE RatAdd(Head(s).v, SumOf(Tail(s)))

\* Series.mean(): NaN skipped, NaN for a series without a sample
Mean(s) ==
    IF Len(DropNa(s)) = 0 THEN NaN
    ELSE RatMul(SumOf(DropNa(s)), Rat(1, Len(DropNa(s))))

RECURSIVE SumSqDev(_, _)
SumSqDev(s, m) ==
    IF Len(s) = 0 THEN Float(0)
    ELSE LET d == RatSub(Head(s).v, m)
         IN  RatAdd(RatMul(d, d), SumSqDev(Tail(s), m))

\* Series.std(): sample standard deviation, ddof = 1; 0/0 is NaN
Std(s) ==
    LET x == DropNa(s)
        n == Len(x)
    IN  IF n - 1 = 0 THEN NaN
        ELSE [RatMul(SumSqDev(x, Mean(x)), Rat(1, n - 1)) EXCEPT !.root = 2]

\* the wind run taken over the sampling slots between the first and the last
\* sample, the missing ones included
CalculateWindRunSpan(wind_speeds, interval_minutes) ==
    LET hours == RatMul(interval_minutes, Rat(1, MinutesPerHour))
        slots == wind_speeds[Len(wind_speeds)].t - wind_speeds[1].t + 1
    IN  RatMul(RatMul(Mean(wind_speeds), hours), Float(slots))

\* _calculate_wind_run(wind_speeds, interval_minutes); interval_minutes is a float
CalculateWindRun(wind_speeds, interval_minutes) ==
    LET hours == RatMul(interval_minutes, Rat(1, MinutesPerHour))
    IN  RatMul(RatMul(Mean(wind_speeds), hours), Float(Len(wind_speeds)))

Directions == <<"N", "NNE", "NE", "ENE", "E", "ESE", "SE", "SSE",
                "S", "SSW", "SW", "WSW", "W", "WNW", "NW", "NNW">>

\* one compass sector, 22.5 degrees
SectorWidth == Rat(45, 2)

\* the same function rounding halves up
GetCardinalDirectionHalfUp(degrees) ==
    LET q == RatAdd(RatMul(degrees, Rat(SectorWidth.den, SectorWidth.num)), Rat(1, 2))
        index == (q.num \div q.den) % 16
    IN  [kind |-> "cardinal", label |-> Directions[index + 1]]

\* _get_cardinal_direction(degrees)
GetCardinalDirection(degrees) ==
    LET index == RoundHalfEven(RatMul(degrees, Rat(SectorWidth.den, SectorWidth.num))) % 16
    IN  [kind |-> "cardinal", label |-> Directions[index + 1]]

-----------------------------------------------------------------------------
(* pandas DataFrame:                                                       *)
(*   [kind |-> "frame", index |-> Seq(timestamp), columns |-> set of names,*)
(*    data |-> [column |-> Seq(float or NaN)]]                             *)

\* df[c]
Col(frame, c) ==
    [i \in 1..Len(frame.index) |-> [t |-> frame.index[i], v |-> frame.data[c][i]]]

\* df.loc[time, c] on a unique index
Loc(frame, time, c) ==
    LET i == CHOOSE j \in 1..Len(frame.index) : frame.index[j] = time
    IN  frame.data[c][i]

\* np.sin / np.cos of np.radians of whole degrees in IEEE double arithmetic.
\* A value is kept in two parts: thousandths of the exact sine or cosine, and
\* what the double differs by from the exact antisymmetric value, in hundredths
\* of 2^-56: sin(radians(180.0)) is 1.2246e-16 (8.82 * 2^-56), not 0, and
\* sin(radians(350.0)) + sin(radians(10.0)) is -2^-54 (-4 * 2^-56), not 0; the
\* cosines of 0, 10, 180 and 350 carry no such difference.
Sin1000(d) ==
    CASE d = 0 -> 0 [] d = 10 -> 174 [] d = 100 -> 985 [] d = 180 -> 0 [] d = 350 -> -174

Cos1000(d) ==
    CASE d = 0 -> 1000 [] d = 10 -> 985 [] d = 100 -> -174 [] d = 180 -> -1000
      [] d = 350 -> 985

SinFine(d) ==
    CASE d = 180 -> 882 [] d = 350 -> -400 [] OTHER -> 0

RECURSIVE SumTrig(_, _)
SumTrig(s, f) ==
    IF Len(s) = 0 THEN 0
    ELSE (CASE f = "sin" -> Sin1000(Head(s).v.num)
            [] f = "cos" -> Cos1000(Head(s).v.num)
            [] f = "fine" -> SinFine(Head(s).v.num))
         + SumTrig(Tail(s), f)

\* a float known to lie strictly between lo and hi degrees
Arc(lo, hi) == [kind |-> "float", form |-> "arc", lo |-> lo, hi |-> hi]

\* avg_angle += 360 for an avg_angle of sf / cm * (180 / pi) * 2^-56 * 10 degrees
\* just below zero: the double nearest to the sum, doubles next to 360 being
\* 2^-44 apart (4096 * 2^-56); 573 is (180 / pi) * 10
PlusFullTurn(sf, cm) ==
    IF RoundHalfEven(Rat(sf * 573, cm * 4096)) = 0 THEN Float(360) ELSE Arc(359, 360)

\* degrees(arctan2(sin_avg, cos_avg)), plus 360 when negative.  The angle is
\* exact where the arithmetic makes it so, and otherwise located in its
\* quadrant; the division by the count cancels in arctan2
CircularMean(wind_dir) ==
    LET sm == SumTrig(wind_dir, "sin")
        cm == SumTrig(wind_dir, "cos")
        sf == SumTrig(wind_dir, "fine")
        sn == IF sm # 0 THEN sm ELSE sf
    IN  IF sm = 0 /\ cm > 0
        THEN (IF sf < 0 THEN PlusFullTurn(sf, cm)
              ELSE IF sf = 0 THEN Float(0)
              ELSE Arc(0, 1))
        ELSE IF sm = 0 /\ cm < 0 THEN Arc(179, 181)
        ELSE IF cm = 0
             THEN (IF sn > 0 THEN Float(90) ELSE IF sn < 0 THEN Float(270) ELSE Float(0))
        ELSE IF sn > 0 THEN (IF cm > 0 THEN Arc(0, 90) ELSE Arc(90, 180))
        ELSE (IF cm < 0 THEN Arc(180, 270) ELSE Arc(270, 360))

\* (wind_dir / 22.5).round() * 22.5, as the set of sector values with their counts
SectorOf(v) == RatMul(Float(RoundHalfEven(RatMul(v, Rat(SectorWidth.den, SectorWidth.num)))),
                      SectorWidth)

SectorCount(wind_dir, sec) ==
    Cardinality({i \in 1..Len(wind_dir) : SectorOf(wind_dir[i].v) = sec})

\* Series.mode(): the most frequent values, sorted ascending
ModeSet(wind_dir) ==
    LET secs == {SectorOf(wind_dir[i].v) : i \in 1..Len(wind_dir)}
    IN  {x \in secs : \A y \in secs : SectorCount(wind_dir, y) <= SectorCount(wind_dir, x)}

\* the most frequent value that occurs first in the window
ModeFirstSeen(wind_dir) ==
    LET i == CHOOSE j \in 1..Len(wind_dir) :
                 /\ SectorOf(wind_dir[j].v) \in ModeSet(wind_dir)
                 /\ \A k \in 1..(j - 1) : SectorOf(wind_dir[k].v) \notin ModeSet(wind_dir)
    IN  SectorOf(wind_dir[i].v)

\* mode[0]
ModeFirst(wind_dir) ==
    CHOOSE x \in ModeSet(wind_dir) : \A y \in ModeSet(wind_dir) : ~RatLess(y, x)

-----------------------------------------------------------------------------
(* _compute_rollup_metrics: one definition per section of the function *)

EmptyDict == [k \in {} |-> None]

\* --- Temperature Metrics ---
TemperatureMetrics(frame) ==
    IF "current_outside_temp" \notin frame.columns THEN EmptyDict
    ELSE LET x == DropNa(Col(frame, "current_outside_temp"))
             lo == FindValueWithTime(x, "min")
             hi == FindValueWithTime(x, "max")
         IN  IF Len(x) = 0 THEN EmptyDict
             ELSE ("low_temperature" :> lo[1]) @@ ("time_of_low_temperature" :> lo[2])
                  @@ ("high_temperature" :> hi[1]) @@ ("time_of_high_temperature" :> hi[2])
                  @@ ("average_temperature" :> Mean(x))

\* the dew point section left reading the temperature column it was copied from
DewPointMetricsCopied(frame) ==
    IF "current_outside_temp" \notin frame.columns THEN EmptyDict
    ELSE LET x == DropNa(Col(frame, "current_outside_temp"))
             lo == FindValueWithTime(x, "min")
             hi == FindValueWithTime(x, "max")
         IN  IF Len(x) = 0 THEN EmptyDict
             ELSE ("low_dew_point" :> lo[1]) @@ ("time_of_low_dew_point" :> lo[2])
                  @@ ("high_dew_point" :> hi[1]) @@ ("time_of_high_dew_point" :> hi[2])
                  @@ ("average_dew_point" :> Mean(x))

\* --- Dew Point Metrics ---
DewPointMetrics(frame) ==
    IF "current_dew_point" \notin frame.columns THEN EmptyDict
    ELSE LET x == DropNa(Col(frame, "current_dew_point"))
             lo == FindValueWithTime(x, "min")
             hi == FindValueWithTime(x, "max")
         IN  IF Len(x) = 0 THEN EmptyDict
             ELSE ("low_dew_point" :> lo[1]) @@ ("time_of_low_dew_point" :> lo[2])
                  @@ ("high_dew_point" :> hi[1]) @@ ("time_of_high_dew_point" :> hi[2])
                  @@ ("average_dew_point" :> Mean(x))

\* the humidity section running only when the temperature column exists too
HumidityMetricsWithTemp(frame) ==
    IF "current_outside_humidity" \notin frame.columns
       \/ "current_outside_temp" \notin frame.columns THEN EmptyDict
    ELSE LET x == DropNa(Col(frame, "current_outside_humidity"))
             lo == FindValueWithTime(x, "min")
             hi == FindValueWithTime(x, "max")
         IN  IF Len(x) = 0 THEN EmptyDict
             ELSE ("low_humidity" :> lo[1]) @@ ("time_of_low_humidity" :> lo[2])
                  @@ ("high_humidity" :> hi[1]) @@ ("time_of_high_humidity" :> hi[2])
                  @@ ("average_humidity" :> Mean(x))

\* --- Humidity Metrics ---
HumidityMetrics(frame) ==
    IF "current_outside_humidity" \notin frame.columns THEN EmptyDict
    ELSE LET x == DropNa(Col(frame, "current_outside_humidity"))
             lo == FindValueWithTime(x, "min")
             hi == FindValueWithTime(x, "max")
         IN  IF Len(x) = 0 THEN EmptyDict
             ELSE ("low_humidity" :> lo[1]) @@ ("time_of_low_humidity" :> lo[2])
                  @@ ("high_humidity" :> hi[1]) @@ ("time_of_high_humidity" :> hi[2])
                  @@ ("average_humidity" :> Mean(x))

\* the wind speed section writing its maximum under a key the schema lacks
WindSpeedMetricsRenamed(frame) ==
    IF "current_wind_speed" \notin frame.columns THEN EmptyDict
    ELSE LET wind == DropNa(Col(frame, "current_wind_speed"))
             lo == FindValueWithTime(wind, "min")
             hi == FindValueWithTime(wind, "max")
         IN  IF Len(wind) = 0 THEN EmptyDict
             ELSE ("low_wind_speed" :> lo[1]) @@ ("time_of_low_wind_speed" :> lo[2])
                  @@ ("high_wind_speed" :> hi[1])
                  @@ ("time_of_high_wind_speed" :> hi[2])
                  @@ ("average_wind_speed" :> Mean(wind))
                  @@ ("wind_speed_stdev" :> Std(wind))
                  @@ ("wind_run_total" :>
                        CalculateWindRun(wind, Rat(WIND_INTERVAL, SecondsPerMinute)))

\* --- Wind Speed Metrics ---
WindSpeedMetrics(frame) ==
    IF "current_wind_speed" \notin frame.columns THEN EmptyDict
    ELSE LET wind == DropNa(Col(frame, "current_wind_speed"))
             lo == FindValueWithTime(wind, "min")
             hi == FindValueWithTime(wind, "max")
         IN  IF Len(wind) = 0 THEN EmptyDict
             ELSE ("low_wind_speed" :> lo[1]) @@ ("time_of_low_wind_speed" :> lo[2])
                  @@ ("high_avg_wind_speed" :> hi[1])
                  @@ ("time_of_high_avg_wind_speed" :> hi[2])
                  @@ ("average_wind_speed" :> Mean(wind))
                  @@ ("wind_speed_stdev" :> Std(wind))
                  @@ ("wind_run_total" :>
                        CalculateWindRun(wind, Rat(WIND_INTERVAL, SecondsPerMinute)))

\* the gust section looking the direction up at the LAST maximum gust
GustMetricsLastMax(frame) ==
    IF "gust_speed" \notin frame.columns THEN EmptyDict
    ELSE LET gust == DropNa(Col(frame, "gust_speed"))
             hi == FindValueWithTimeLast(gust, "max")
             base == ("max_gust_speed" :> hi[1]) @@ ("time_of_max_gust" :> hi[2])
         IN  IF Len(gust) = 0 THEN EmptyDict
             ELSE IF hi[2].kind = "time" /\ "max_wind_direction" \in frame.columns
                  THEN LET gust_time == ParseIso(hi[2].iso)
                           gust_dir == Loc(frame, gust_time, "max_wind_direction")
                       IN  IF ~IsNaN(gust_dir)
                           THEN base @@ ("max_gust_direction" :> gust_dir)
                           ELSE base
                  ELSE base

\* --- Gust Metrics ---
GustMetrics(frame) ==
    IF "gust_speed" \notin frame.columns THEN EmptyDict
    ELSE LET gust == DropNa(Col(frame, "gust_speed"))
             hi == FindValueWithTime(gust, "max")
             base == ("max_gust_speed" :> hi[1]) @@ ("time_of_max_gust" :> hi[2])
         IN  IF Len(gust) = 0 THEN EmptyDict
             ELSE IF hi[2].kind = "time" /\ "max_wind_direction" \in frame.columns
                  THEN LET gust_time == ParseIso(hi[2].iso)
                           gust_dir == Loc(frame, gust_time, "max_wind_direction")
                       IN  IF ~IsNaN(gust_dir)
                           THEN base @@ ("max_gust_direction" :> gust_dir)
                           ELSE base
                  ELSE base

\* --- Wind Direction Metrics ---
WindDirectionMetrics(frame) ==
    IF "current_wind_direction" \notin frame.columns THEN EmptyDict
    ELSE LET wind_dir == DropNa(Col(frame, "current_wind_direction"))
         IN  IF Len(wind_dir) = 0 THEN EmptyDict
             ELSE ("average_wind_direction" :> CircularMean(wind_dir))
                  @@ (IF ModeSet(wind_dir) # {}
                      THEN ("dominant_wind_direction" :>
                                GetCardinalDirection(ModeFirst(wind_dir)))
                      ELSE EmptyDict)

\* the pressure section without its "if not press.empty" guard
PressureMetricsUnguarded(frame) ==
    IF "current_sea_level_pressure" \notin frame.columns THEN EmptyDict
    ELSE LET x == DropNa(Col(frame, "current_sea_level_pressure"))
             lo == FindValueWithTime(x, "min")
             hi == FindValueWithTime(x, "max")
         IN  ("low_pressure" :> lo[1]) @@ ("time_of_low_pressure" :> lo[2])
             @@ ("high_pressure" :> hi[1]) @@ ("time_of_high_pressure" :> hi[2])
             @@ ("average_pressure" :> Mean(x))

\* --- Pressure Metrics ---
PressureMetrics(frame) ==
    IF "current_sea_level_pressure" \notin frame.columns THEN EmptyDict
    ELSE LET x == DropNa(Col(frame, "current_sea_level_pressure"))
             lo == FindValueWithTime(x, "min")
             hi == FindValueWithTime(x, "max")
         IN  IF Len(x) = 0 THEN EmptyDict
             ELSE ("low_pressure" :> lo[1]) @@ ("time_of_low_pressure" :> lo[2])
                  @@ ("high_pressure" :> hi[1]) @@ ("time_of_high_pressure" :> hi[2])
                  @@ ("average_pressure" :> Mean(x))

\* --- Rainfall Metrics --- (rain rate)
RainRateMetrics(frame) ==
    IF "current_rain_rate" \notin frame.columns THEN EmptyDict
    ELSE LET rain_rate == DropNa(Col(frame, "current_rain_rate"))
             hi == FindValueWithTime(rain_rate, "max")
         IN  IF Len(rain_rate) = 0 THEN EmptyDict
             ELSE ("max_rain_rate" :> hi[1]) @@ ("time_of_max_rain_rate" :> hi[2])

\* the rainfall total taken as the rise from the lowest to the highest reading
TotalRainMetricsRange(frame) ==
    IF "total_rain" \notin frame.columns THEN EmptyDict
    ELSE LET rain == DropNa(Col(frame, "total_rain"))
         IN  IF Len(rain) = 0 THEN EmptyDict
             ELSE ("total_rainfall" :> RatSub(ApplyAgg(rain, "max"), ApplyAgg(rain, "min")))

\* --- Rainfall Metrics --- (cumulative total)
TotalRainMetrics(frame) ==
    IF "total_rain" \notin frame.columns THEN EmptyDict
    ELSE LET rain == DropNa(Col(frame, "total_rain"))
         IN  IF Len(rain) = 0 THEN EmptyDict
             ELSE ("total_rainfall" :> RatSub(rain[Len(rain)].v, rain[1].v))

StationTag(s) == [kind |-> "str", s |-> s]

\* _compute_rollup_metrics(df, station)
ComputeRollupMetrics(frame, st) ==
    ("station" :> StationTag(st))
    @@ TemperatureMetrics(frame) @@ DewPointMetrics(frame) @@ HumidityMetrics(frame)
    @@ WindSpeedMetrics(frame) @@ GustMetrics(frame) @@ WindDirectionMetrics(frame)
    @@ PressureMetrics(frame) @@ RainRateMetrics(frame) @@ TotalRainMetrics(frame)

-----------------------------------------------------------------------------
(* the raw table's source columns and the rollup tables' schema *)

Columns ==
    {"current_outside_temp", "current_dew_point", "current_outside_humidity",
     "current_wind_speed", "gust_speed", "max_wind_direction",
     "current_wind_direction", "current_sea_level_pressure",
     "current_rain_rate", "total_rain"}

\* SENSOR_ROLLUP_FIELDS: field name -> storage type
SENSOR_ROLLUP_FIELDS ==
    [low_temperature |-> "float64", time_of_low_temperature |-> "utf8",
     high_temperature |-> "float64", time_of_high_temperature |-> "utf8",
     average_temperature |-> "float64",
     low_dew_point |-> "float64", time_of_low_dew_point |-> "utf8",
     high_dew_point |-> "float64", time_of_high_dew_point |-> "utf8",
     average_dew_point |-> "float64",
     low_humidity |-> "float64", time_of_low_humidity |-> "utf8",
     high_humidity |-> "float64", time_of_high_humidity |-> "utf8",
     average_humidity |-> "float64",
     low_wind_speed |-> "float64", time_of_low_wind_speed |-> "utf8",
     high_avg_wind_speed |-> "float64", time_of_high_avg_wind_speed |-> "utf8",
     average_wind_speed |-> "float64",
     max_gust_speed |-> "float64", time_of_max_gust |-> "utf8",
     max_gust_direction |-> "float64",
     wind_speed_stdev |-> "float64", average_wind_direction |-> "float64",
     dominant_wind_direction |-> "utf8", wind_run_total |-> "float64",
     low_pressure |-> "float64", time_of_low_pressure |-> "utf8",
     high_pressure |-> "float64", time_of_high_pressure |-> "utf8",
     average_pressure |-> "float64",
     max_rain_rate |-> "float64", time_of_max_rain_rate |-> "utf8",
     total_rainfall |-> "float64"]

-----------------------------------------------------------------------------
(* the windows the aggregator is run on *)

Stations == {"home", "roof"}

\* abstract sample levels of a cell, turned into a plausible reading per column
Levels == {1, 2}

ColBase(c) ==
    CASE c = "current_outside_temp" -> 10
      [] c = "current_dew_point" -> 4
      [] c = "current_outside_humidity" -> 60
      [] c = "current_wind_speed" -> 2
      [] c = "gust_speed" -> 20
      [] c = "current_sea_level_pressure" -> 1000
      [] c = "current_rain_rate" -> 0
      [] c = "total_rain" -> 30

DirTable == <<350, 10>>

\* the reading of column c at sample level v
SampleOf(c, v) ==
    IF c = "current_wind_direction" THEN Float(DirTable[v])
    ELSE Float(ColBase(c) + v)

\* the max_wind_direction reading of row i, when it has one
DirAt(i) == Float((i * 90) % 360)

\* timestamps of the rows: consecutive ticks across a day boundary
RowTime(i) == TicksPerDay - 2 + i

AllData == [c \in Columns |-> "data"]
AllAbsent == [c \in Columns |-> "absent"]

\* per column: absent from the frame, present with every sample missing, or
\* present with data; at most one column differs from the others
Modes ==
    {AllData, AllAbsent}
    \cup {[AllData EXCEPT ![c] = x] : c \in Columns, x \in {"absent", "blank"}}
    \cup {[AllAbsent EXCEPT ![c] = x] : c \in Columns, x \in {"data", "blank"}}

\* a: sample level or 0 (missing) per row, shared by the columns;
\* b: whether max_wind_direction has a sample, per row
MakeFrame(n, a, b, m) ==
    [kind |-> "frame",
     index |-> [i \in 1..n |-> RowTime(i)],
     columns |-> {c \in Columns : m[c] # "absent"},
     data |-> [c \in {d \in Columns : m[d] # "absent"} |->
                 [i \in 1..n |->
                    IF m[c] = "blank" THEN NaN
                    ELSE IF c = "max_wind_direction"
                         THEN (IF b[i] THEN DirAt(i) ELSE NaN)
                    ELSE IF a[i] = 0 THEN NaN ELSE SampleOf(c, a[i])]]]

Unused == [kind |-> "unused"]

-----------------------------------------------------------------------------
(* SpecAgg: _compute_rollup_metrics applied to every window *)

InitAgg ==
    /\ \E n \in 1..MaxRows :
         \E a \in [1..n -> Levels \cup {0}], b \in [1..n -> BOOLEAN], m \in Modes :
            df = MakeFrame(n, a, b, m)
    /\ station = "home"
    /\ pc = "aggregate"
    /\ metrics = EmptyDict
    /\ kind = "none" /\ target = Unused /\ now = Unused /\ raw = {} /\ fault = Unused
    /\ start_time = Unused /\ end_time = Unused /\ result = "none"
    /\ rollups = <<>> /\ steps = <<>>
    /\ series = <<>> /\ agg_func = "none" /\ found = <<>>
    /\ angle = Unused /\ label = None

AggCompute ==
    /\ pc = "aggregate"
    /\ metrics' = ComputeRollupMetrics(df, station)
    /\ pc' = "aggregated"
    /\ UNCHANGED <<kind, target, now, station, raw, fault, start_time, end_time, df,
                   result, rollups, steps, series, agg_func, found,
                   angle, label>>

NextAgg == AggCompute

SpecAgg == InitAgg /\ [][NextAgg]_vars

-----------------------------------------------------------------------------
(* SpecPair: _compute_rollup_metrics applied to two windows over the same    *)
(* timestamps; df and metrics are pairs, one entry per window.               *)

\* the columns the two windows share the samples of: one column, or the two
\* columns of the gust section
Keeps == {{c} : c \in Columns} \cup {{"gust_speed", "max_wind_direction"}}

\* what a window holds in its other columns: nothing, columns without a
\* sample, the samples of the shared rows, or different samples
Variants == {"absent", "blank", "same", "other"}

\* the cell of column c in row i for sample levels a and direction flags b
Cell(c, i, a, b) ==
    IF c = "max_wind_direction" THEN (IF b[i] THEN DirAt(i) ELSE NaN)
    ELSE IF a[i] = 0 THEN NaN ELSE SampleOf(c, a[i])

\* a window whose columns in K follow (a, b) and whose other columns follow o
PairFrame(n, K, a, b, o) ==
    LET cols == IF o = "absent" THEN K ELSE Columns
        a2 == [i \in 1..n |-> (a[i] + 1) % 3]
        b2 == [i \in 1..n |-> ~b[i]]
    IN  [kind |-> "frame",
         index |-> [i \in 1..n |-> RowTime(i)],
         columns |-> cols,
         data |-> [c \in cols |->
                     [i \in 1..n |->
                        IF c \in K \/ o = "same" THEN Cell(c, i, a, b)
                        ELSE IF o = "blank" THEN NaN
                        ELSE Cell(c, i, a2, b2)]]]

InitPair ==
    /\ \E n \in 1..MaxRows :
         \E a \in [1..n -> Levels \cup {0}], b \in [1..n -> BOOLEAN], K \in Keeps,
            o \in Variants, p \in Variants :
            /\ o # p
            /\ ("max_wind_direction" \in K \/ \A i \in 1..n : b[i])
            /\ df = <<PairFrame(n, K, a, b, o), PairFrame(n, K, a, b, p)>>
    /\ station = "home"
    /\ pc = "pair"
    /\ metrics = <<EmptyDict, EmptyDict>>
    /\ kind = "none" /\ target = Unused /\ now = Unused /\ raw = {} /\ fault = Unused
    /\ start_time = Unused /\ end_time = Unused /\ result = "none"
    /\ rollups = <<>> /\ steps = <<>>
    /\ series = <<>> /\ agg_func = "none" /\ found = <<>>
    /\ angle = Unused /\ label = None

AggPair ==
    /\ pc = "pair"
    /\ metrics' = <<ComputeRollupMetrics(df[1], station), ComputeRollupMetrics(df[2], station)>>
    /\ pc' = "paired"
    /\ UNCHANGED <<kind, target, now, station, raw, fault, start_time, end_time, df,
                   result, rollups, steps, series, agg_func, found,
                   angle, label>>

NextPair == AggPair

SpecPair == InitPair /\ [][NextPair]_vars

-----------------------------------------------------------------------------
(* SpecDir: _compute_rollup_metrics applied to every window of wind          *)
(* directions                                                                *)

\* readings of current_wind_direction, whole degrees in [0, 360)
DirAngles == {0, 10, 100, 180, 350}

\* the window whose only column is current_wind_direction, reading a[i] in
\* row i, or nothing where a[i] is -1
DirFrame(n, a) ==
    [kind |-> "frame",
     index |-> [i \in 1..n |-> RowTime(i)],
     columns |-> {"current_wind_direction"},
     data |-> [c \in {"current_wind_direction"} |->
                 [i \in 1..n |-> IF a[i] = -1 THEN NaN ELSE Float(a[i])]]]

InitDir ==
    /\ \E n \in 1..MaxDirs : \E a \in [1..n -> DirAngles \cup {-1}] : df = DirFrame(n, a)
    /\ station = "home"
    /\ pc = "aggregate"
    /\ metrics = EmptyDict
    /\ kind = "none" /\ target = Unused /\ now = Unused /\ raw = {} /\ fault = Unused
    /\ start_time = Unused /\ end_time = Unused /\ result = "none"
    /\ rollups = <<>> /\ steps = <<>>
    /\ series = <<>> /\ agg_func = "none" /\ found = <<>>
    /\ angle = Unused /\ label = None

SpecDir == InitDir /\ [][NextAgg]_vars

-----------------------------------------------------------------------------
(* SpecLocate: _find_value_with_time applied to every ascending series *)

LocTimes == (TicksPerDay - 2) .. (TicksPerDay - 2 + MaxSeriesLen)

Samples == {Float(x) : x \in 1..MaxSample} \cup {NaN}

RECURSIVE SortedSeq(_)
SortedSeq(S) ==
    IF S = {} THEN <<>>
    ELSE LET lo == CHOOSE x \in S : \A y \in S : x <= y
         IN  <<lo>> \o SortedSeq(S \ {lo})

\* the series whose index is T in ascending order and whose values are f
SeriesOn(T, f) == [i \in 1..Cardinality(T) |-> [t |-> SortedSeq(T)[i], v |-> f[SortedSeq(T)[i]]]]

InitLocate ==
    /\ \E T \in SUBSET LocTimes : \E f \in [T -> Samples] : series = SeriesOn(T, f)
    /\ agg_func \in {"min", "max"}
    /\ found = <<>>
    /\ pc = "locate"
    /\ df = None /\ station = "home" /\ metrics = EmptyDict
    /\ kind = "none" /\ target = Unused /\ now = Unused /\ raw = {} /\ fault = Unused
    /\ start_time = Unused /\ end_time = Unused /\ result = "none"
    /\ rollups = <<>> /\ steps = <<>>
    /\ angle = Unused /\ label = None

Locate ==
    /\ pc = "locate"
    /\ found' = FindValueWithTime(series, agg_func)
    /\ pc' = "located"
    /\ UNCHANGED <<kind, target, now, station, raw, fault, start_time, end_time, df,
                   metrics, result, rollups, steps, series, agg_func,
                   angle, label>>

NextLocate == Locate

SpecLocate == InitLocate /\ [][NextLocate]_vars

-----------------------------------------------------------------------------
(* SpecCardinal: _get_cardinal_direction applied to every quarter of a       *)
(* degree from -MaxDegrees to MaxDegrees                                     *)

InitCardinal ==
    /\ \E n \in (-4 * MaxDegrees) .. (4 * MaxDegrees) : angle = Rat(n, 4)
    /\ label = None
    /\ pc = "map"
    /\ df = None /\ station = "home" /\ metrics = EmptyDict
    /\ kind = "none" /\ target = Unused /\ now = Unused /\ raw = {} /\ fault = Unused
    /\ start_time = Unused /\ end_time = Unused /\ result = "none"
    /\ rollups = <<>> /\ steps = <<>>
    /\ series = <<>> /\ agg_func = "none" /\ found = <<>>

MapCardinal ==
    /\ pc = "map"
    /\ label' = GetCardinalDirection(angle)
    /\ pc' = "mapped"
    /\ UNCHANGED <<kind, target, now, station, raw, fault, start_time, end_time, df,
                   metrics, result, rollups, steps, series, agg_func, found, angle>>

NextCardinal == MapCardinal

SpecCardinal == InitCardinal /\ [][NextCardinal]_vars

-----------------------------------------------------------------------------
(* the storage engine, as far as the rollup service sees it *)

DateTime(t) == [kind |-> "datetime", t |-> t]

HourlyTable == "wind_sensor_1h"
DailyTable == "wind_sensor_1d"

\* instants at which the raw table may hold a row: around the start of day 1,
\* of its second hour and of day 2
SampleTimes ==
    {TicksPerDay - 1, TicksPerDay, TicksPerDay + TicksPerHour - 1,
     TicksPerDay + TicksPerHour, 2 * TicksPerDay - 1, 2 * TicksPerDay}

\* the cell of column c in the raw row of station st at time t
RawCell(st, t, c) ==
    LET v == (t + (IF st = "home" THEN 0 ELSE 1)) % 3
    IN  IF c = "max_wind_direction" THEN DirAt(t % 4)
        ELSE IF v = 0 THEN NaN ELSE SampleOf(c, v)

\* result.to_pandas() followed by set_index('time'): rows in the order the
\* query returned them (ORDER BY time), one column per field of the raw table
ToPandas(rows, st) ==
    LET times == SortedSeq({r.time : r \in rows})
    IN  [kind |-> "frame",
         index |-> times,
         columns |-> Columns,
         data |-> [c \in Columns |-> [i \in 1..Len(times) |-> RawCell(st, times[i], c)]]]

\* the selection with a closed upper end: time <= hi
SelectClosed(store, st, lo, hi) ==
    {r \in store : r.station = st /\ r.time >= ParseIso(lo) /\ r.time <= ParseIso(hi)}

\* the rows the SQL text selects: station = st AND time >= lo AND time < hi
Select(store, st, lo, hi) ==
    {r \in store : r.station = st /\ r.time >= ParseIso(lo) /\ r.time < ParseIso(hi)}

\* _query_raw_data without its try/except: a failing query propagates
QueryRawDataUnguarded(store, start, end, st, outcome) ==
    IF outcome = "error" THEN [kind |-> "raise"]
    ELSE IF outcome = "none" THEN None
    ELSE LET rows == Select(store, st, IsoFormat(start), IsoFormat(end))
         IN  IF rows = {} THEN None ELSE ToPandas(rows, st)

\* _query_raw_data returning an empty frame instead of None
QueryRawDataEmptyFrame(store, start, end, st, outcome) ==
    IF outcome = "error" THEN None
    ELSE IF outcome = "none" THEN None
    ELSE ToPandas(Select(store, st, IsoFormat(start), IsoFormat(end)), st)

\* _query_raw_data(start_time, end_time, station); outcome is what the storage
\* engine does: "ok", "none" (the client returns None) or "error" (it raises)
QueryRawData(store, start, end, st, outcome) ==
    IF outcome = "error" THEN None
    ELSE IF outcome = "none" THEN None
    ELSE LET rows == Select(store, st, IsoFormat(start), IsoFormat(end))
         IN  IF rows = {} THEN None ELSE ToPandas(rows, st)

\* _write_rollup trying the write a second time after a failure
WriteRollupRetry(m, timestamp, table_name, outcome) ==
    LET row == [table |-> table_name, time |-> timestamp,
                tags |-> [station |-> m["station"].s],
                fields |-> [k \in DOMAIN m \ {"station"} |-> m[k]]]
    IN  IF outcome = "error" THEN [ret |-> "False", rows |-> <<>>, attempts |-> 2]
        ELSE [ret |-> "True", rows |-> <<row>>, attempts |-> 1]

\* _write_rollup skipping the write when the period already has a row
WriteRollupOnce(m, timestamp, table_name, outcome) ==
    LET row == [table |-> table_name, time |-> timestamp,
                tags |-> [station |-> m["station"].s],
                fields |-> [k \in DOMAIN m \ {"station"} |-> m[k]]]
        present == \E i \in 1..Len(rollups) :
                      /\ rollups[i].table = table_name
                      /\ rollups[i].time = timestamp
                      /\ rollups[i].tags = row.tags
    IN  IF outcome = "error" THEN [ret |-> "False", rows |-> <<>>, attempts |-> 1]
        ELSE IF present THEN [ret |-> "True", rows |-> <<>>, attempts |-> 0]
        ELSE [ret |-> "True", rows |-> <<row>>, attempts |-> 1]

\* _write_rollup(metrics, timestamp, table_name): the returned value, the rows
\* appended to the table and the number of client.write calls made
WriteRollup(m, timestamp, table_name, outcome) ==
    LET row == [table |-> table_name, time |-> timestamp,
                tags |-> [station |-> m["station"].s],
                fields |-> [k \in DOMAIN m \ {"station"} |-> m[k]]]
    IN  IF outcome = "error" THEN [ret |-> "False", rows |-> <<>>, attempts |-> 1]
        ELSE [ret |-> "True", rows |-> <<row>>, attempts |-> 1]

\* a writer that replaces the row of the same table, timestamp and tags
TableUpsert(store, rows) ==
    SelectSeq(store, LAMBDA r : \A i \in 1..Len(rows) :
                 <<r.table, r.time, r.tags>> # <<rows[i].table, rows[i].time, rows[i].tags>>)
    \o rows

\* client.write(df, ...): the points handed over are added to what the service
\* has written so far; nothing written earlier is read, changed or deleted
TableWrite(store, rows) == store \o rows

-----------------------------------------------------------------------------
(* period resolution of the two entry points *)

\* the hour that contains now
CurrentHour(n) == ReplaceMinuteSecond(n)

\* now.replace(minute=0, second=0, microsecond=0) - timedelta(hours=1)
DefaultHour(n) == ReplaceMinuteSecond(n) - HourDelta

\* (now - timedelta(days=1)).replace(hour=0, minute=0, second=0, microsecond=0)
DefaultDay(n) == ReplaceHourMinuteSecond(n - DayDelta)

\* the write timestamped with the end of the period
EndOfPeriod(startT, endT) == endT

\* the timestamp handed to _write_rollup: target_hour / target_date
RollupTimestamp(startT, endT) == startT

-----------------------------------------------------------------------------
(* Spec: one invocation of compute_hourly_rollup or compute_daily_rollup *)

\* explicit period starts a caller passes: aligned ones and one that is not
ExplicitStarts ==
    {TicksPerDay, TicksPerDay + TicksPerHour, TicksPerDay + 1, 2 * TicksPerDay - TicksPerHour}

\* values of datetime.utcnow(): two hours either side of the start of day 2
NowTimes == (2 * TicksPerDay - 2 * TicksPerHour) .. (2 * TicksPerDay + 2 * TicksPerHour)

RoofRows == {[station |-> "roof", time |-> t] : t \in SampleTimes}

Init ==
    /\ pc = "idle"
    /\ \E T \in SUBSET SampleTimes :
          raw = {[station |-> "home", time |-> t] : t \in T} \cup RoofRows
    /\ kind = "none" /\ target = Unused /\ now = Unused /\ station = "none"
    /\ fault = [query |-> "unset", write |-> "unset"]
    /\ start_time = Unused /\ end_time = Unused
    /\ df = Unused /\ metrics = EmptyDict
    /\ result = "none" /\ rollups = <<>> /\ steps = <<>>
    /\ series = <<>> /\ agg_func = "none" /\ found = <<>>
    /\ angle = Unused /\ label = None

\* lines 263-268 / 286-292: resolve the period
Enter(k, tgt, st, n, default, delta) ==
    /\ pc = "idle"
    /\ kind' = k
    /\ station' = st
    /\ IF tgt.kind = "none"
       THEN /\ now' = DateTime(n)
            /\ target' = DateTime(default)
       ELSE /\ now' = Unused
            /\ target' = tgt
    /\ start_time' = target'
    /\ end_time' = DateTime(target'.t + delta)
    /\ pc' = "query"
    /\ UNCHANGED <<raw, fault, df, metrics, result, rollups, steps, series, agg_func, found,
                   angle, label>>

\* lines 273-275 / 297-299: df = self._query_raw_data(...); if df is None: return False
QueryStep(k) ==
    /\ pc = "query" /\ kind = k
    /\ \E outcome \in {"ok", "none", "error"} :
         LET r == QueryRawData(raw, start_time.t, end_time.t, station, outcome)
         IN  /\ df' = r
             /\ fault' = [fault EXCEPT !.query = outcome]
             /\ steps' = Append(steps, "query")
             /\ IF r.kind = "raise" THEN pc' = "done" /\ result' = "raised"
                ELSE IF r.kind = "none" THEN pc' = "done" /\ result' = "False"
                ELSE pc' = "aggregate" /\ result' = result
    /\ UNCHANGED <<kind, target, now, station, raw, start_time, end_time, metrics,
                   rollups, series, agg_func, found,
                   angle, label>>

\* lines 277 / 301: metrics = self._compute_rollup_metrics(df, station)
AggregateStep(k) ==
    /\ pc = "aggregate" /\ kind = k
    /\ metrics' = ComputeRollupMetrics(df, station)
    /\ steps' = Append(steps, "aggregate")
    /\ pc' = "write"
    /\ UNCHANGED <<kind, target, now, station, raw, fault, start_time, end_time, df,
                   result, rollups, series, agg_func, found,
                   angle, label>>

\* lines 278 / 302: return self._write_rollup(metrics, target, table)
WriteStep(k, table) ==
    /\ pc = "write" /\ kind = k
    /\ \E outcome \in {"ok", "error"} :
         LET w == WriteRollup(metrics, RollupTimestamp(target.t, end_time.t), table, outcome)
         IN  /\ rollups' = TableWrite(rollups, w.rows)
             /\ result' = w.ret
             /\ fault' = [fault EXCEPT !.write = outcome]
             /\ steps' = steps \o [i \in 1..w.attempts |-> "write"]
    /\ pc' = "done"
    /\ UNCHANGED <<kind, target, now, station, raw, start_time, end_time, df, metrics,
                   series, agg_func, found,
                   angle, label>>

Targets == {DateTime(t) : t \in ExplicitStarts} \cup {None}

HourlyEnter ==
    \E tgt \in Targets, st \in Stations, n \in NowTimes :
        Enter("hourly", tgt, st, n, DefaultHour(n), HourDelta)

HourlyQuery == QueryStep("hourly")

HourlyAggregate == AggregateStep("hourly")

HourlyWrite == WriteStep("hourly", HourlyTable)

DailyEnter ==
    \E tgt \in Targets, st \in Stations, n \in NowTimes :
        Enter("daily", tgt, st, n, DefaultDay(n), DayDelta)

DailyQuery == QueryStep("daily")

DailyAggregate == AggregateStep("daily")

DailyWrite == WriteStep("daily", DailyTable)

Next ==
    \/ HourlyEnter
    \/ HourlyQuery
    \/ HourlyAggregate
    \/ HourlyWrite
    \/ DailyEnter
    \/ DailyQuery
    \/ DailyAggregate
    \/ DailyWrite

Spec == Init /\ [][Next]_vars

-----------------------------------------------------------------------------
(* SpecTwo: two invocations of the entry points, each made by its own job on *)
(* its own WeatherRollupService (rollup_main.py, run_hourly_rollup and       *)
(* run_daily_rollup), interleaved at their calls to the storage engine.  The *)
(* locals of an invocation (pc .. result) are functions of the invocation;   *)
(* raw and rollups are the tables both use; steps is the history of calls    *)
(* and returns.                                                              *)

Invocations == {1, 2}

\* the explicit period start a caller passes, and the values of utcnow()
TwoStarts == {TicksPerDay}
TwoNows == {2 * TicksPerDay, 2 * TicksPerDay + 1}

\* instants at which the raw table of station home may hold a row
TwoSampleTimes == {TicksPerDay, 2 * TicksPerDay - 1}

InitTwo ==
    /\ pc = [i \in Invocations |-> "idle"]
    /\ \E T \in SUBSET TwoSampleTimes :
          raw = {[station |-> "home", time |-> t] : t \in T} \cup RoofRows
    /\ kind = [i \in Invocations |-> "none"]
    /\ target = [i \in Invocations |-> Unused]
    /\ now = [i \in Invocations |-> Unused]
    /\ station = [i \in Invocations |-> "none"]
    /\ fault = [i \in Invocations |-> [query |-> "unset", write |-> "unset"]]
    /\ start_time = [i \in Invocations |-> Unused]
    /\ end_time = [i \in Invocations |-> Unused]
    /\ df = [i \in Invocations |-> Unused]
    /\ metrics = [i \in Invocations |-> EmptyDict]
    /\ result = [i \in Invocations |-> "none"]
    /\ rollups = <<>> /\ steps = <<>>
    /\ series = <<>> /\ agg_func = "none" /\ found = <<>>
    /\ angle = Unused /\ label = None

\* lines 263-268 / 286-292 of invocation i
CallEnter(i) ==
    /\ pc[i] = "idle"
    /\ \E k \in {"hourly", "daily"}, st \in Stations, n \in TwoNows,
          tgt \in {DateTime(t) : t \in TwoStarts} \cup {None} :
         LET resolved == IF tgt.kind = "none"
                         THEN DateTime(IF k = "hourly" THEN DefaultHour(n) ELSE DefaultDay(n))
                         ELSE tgt
             delta == IF k = "hourly" THEN HourDelta ELSE DayDelta
         IN  /\ kind' = [kind EXCEPT ![i] = k]
             /\ station' = [station EXCEPT ![i] = st]
             /\ now' = [now EXCEPT ![i] = IF tgt.kind = "none" THEN DateTime(n) ELSE Unused]
             /\ target' = [target EXCEPT ![i] = resolved]
             /\ start_time' = [start_time EXCEPT ![i] = resolved]
             /\ end_time' = [end_time EXCEPT ![i] = DateTime(resolved.t + delta)]
    /\ pc' = [pc EXCEPT ![i] = "query"]
    /\ steps' = Append(steps, <<"call", i>>)
    /\ UNCHANGED <<raw, fault, df, metrics, result, rollups, series, agg_func, found,
                   angle, label>>

\* lines 273-275 / 297-299 of invocation i
CallQuery(i) ==
    /\ pc[i] = "query"
    /\ \E outcome \in {"ok", "none", "error"} :
         LET r == QueryRawData(raw, start_time[i].t, end_time[i].t, station[i], outcome)
         IN  /\ df' = [df EXCEPT ![i] = r]
             /\ fault' = [fault EXCEPT ![i].query = outcome]
             /\ IF r.kind = "raise"
                THEN /\ pc' = [pc EXCEPT ![i] = "done"]
                     /\ result' = [result EXCEPT ![i] = "raised"]
                     /\ steps' = Append(steps, <<"return", i>>)
                ELSE IF r.kind = "none"
                THEN /\ pc' = [pc EXCEPT ![i] = "done"]
                     /\ result' = [result EXCEPT ![i] = "False"]
                     /\ steps' = Append(steps, <<"return", i>>)
                ELSE /\ pc' = [pc EXCEPT ![i] = "aggregate"]
                     /\ UNCHANGED <<result, steps>>
    /\ UNCHANGED <<kind, target, now, station, raw, start_time, end_time, metrics,
                   rollups, series, agg_func, found,
                   angle, label>>

\* lines 277 / 301 of invocation i
CallAggregate(i) ==
    /\ pc[i] = "aggregate"
    /\ metrics' = [metrics EXCEPT ![i] = ComputeRollupMetrics(df[i], station[i])]
    /\ pc' = [pc EXCEPT ![i] = "write"]
    /\ UNCHANGED <<kind, target, now, station, raw, fault, start_time, end_time, df,
                   result, rollups, steps, series, agg_func, found,
                   angle, label>>

\* lines 278 / 302 of invocation i
CallWrite(i) ==
    /\ pc[i] = "write"
    /\ \E outcome \in {"ok", "error"} :
         LET w == WriteRollup(metrics[i], RollupTimestamp(target[i].t, end_time[i].t),
                              IF kind[i] = "hourly" THEN HourlyTable ELSE DailyTable,
                              outcome)
         IN  /\ rollups' = TableWrite(rollups, w.rows)
             /\ result' = [result EXCEPT ![i] = w.ret]
             /\ fault' = [fault EXCEPT ![i].write = outcome]
    /\ pc' = [pc EXCEPT ![i] = "done"]
    /\ steps' = Append(steps, <<"return", i>>)
    /\ UNCHANGED <<kind, target, now, station, raw, start_time, end_time, df, metrics,
                   series, agg_func, found,
                   angle, label>>

NextTwo ==
    \E i \in Invocations :
        \/ CallEnter(i)
        \/ CallQuery(i)
        \/ CallAggregate(i)
        \/ CallWrite(i)

SpecTwo == InitTwo /\ [][NextTwo]_vars

-----------------------------------------------------------------------------
(* SpecSched: the scheduler of rollup_main, firing the two jobs on a clock.  *)
(* now is the wall clock, pc the set of jobs whose trigger fired at this     *)
(* instant and that have not run yet, steps the finished invocations in      *)
(* order; kind .. result are the locals of the latest invocation.            *)

\* CronTrigger(minute=5) and CronTrigger(hour=0, minute=10)
HourlyMinute == 5
DailyHour == 0
DailyMinute == 10

\* the tick of the hour the given minute lies in
TickOfMinute(m) == (m * TicksPerHour) \div MinutesPerHour

\* a trigger that fires at every instant
HourlyTriggerAlways(t) == TRUE

\* CronTrigger(minute=5): fires in every hour, at minute 5
HourlyTrigger(t) == Fields(t).tick = TickOfMinute(HourlyMinute)

\* CronTrigger(hour=0, minute=10): fires every day at 00:10
DailyTrigger(t) ==
    Fields(t).hour = DailyHour /\ Fields(t).tick = TickOfMinute(DailyMinute)

\* the jobs scheduler.add_job registered whose trigger fires at t
Due(t) ==
    (IF HourlyTrigger(t) THEN {"hourly_rollup"} ELSE {}) \cup
    (IF DailyTrigger(t) THEN {"daily_rollup"} ELSE {})

\* the station argument left to its default
DefaultStation == "home"

\* the scheduler starts at 00:00 of day 1 and is followed for SchedDays days
\* and one more hour
SchedStart == TicksPerDay
SchedEnd == SchedStart + SchedDays * TicksPerDay + TicksPerHour

InitSched ==
    /\ now = DateTime(SchedStart)
    /\ pc = Due(SchedStart)
    /\ \E T \in SUBSET TwoSampleTimes :
          raw = {[station |-> DefaultStation, time |-> t] : t \in T} \cup RoofRows
    /\ kind = "none" /\ target = Unused /\ station = "none"
    /\ fault = [query |-> "unset", write |-> "unset"]
    /\ start_time = Unused /\ end_time = Unused
    /\ df = Unused /\ metrics = EmptyDict
    /\ result = "none" /\ rollups = <<>> /\ steps = <<>>
    /\ series = <<>> /\ agg_func = "none" /\ found = <<>>
    /\ angle = Unused /\ label = None

\* the clock advances once every job due at this instant has run
Tick ==
    /\ pc = {}
    /\ now.t < SchedEnd
    /\ now' = DateTime(now.t + 1)
    /\ pc' = Due(now.t + 1)
    /\ UNCHANGED <<kind, target, station, raw, fault, start_time, end_time, df, metrics,
                   result, rollups, steps, series, agg_func, found, angle, label>>

\* a job function: a fresh service, the entry point called with its defaults,
\* the returned value dropped
RunJob(job, k, default, delta, table) ==
    /\ job \in pc
    /\ pc' = pc \ {job}
    /\ kind' = k
    /\ station' = DefaultStation
    /\ target' = DateTime(default)
    /\ start_time' = target'
    /\ end_time' = DateTime(default + delta)
    /\ \E qo \in {"ok", "none", "error"}, wo \in {"ok", "error"} :
         LET r == QueryRawData(raw, default, default + delta, DefaultStation, qo)
             m == ComputeRollupMetrics(r, DefaultStation)
             w == WriteRollup(m, RollupTimestamp(default, default + delta), table, wo)
         IN  /\ df' = r
             /\ IF r.kind = "none"
                THEN /\ fault' = [query |-> qo, write |-> "unset"]
                     /\ metrics' = EmptyDict
                     /\ result' = "False"
                     /\ rollups' = rollups
                ELSE /\ fault' = [query |-> qo, write |-> wo]
                     /\ metrics' = m
                     /\ result' = w.ret
                     /\ rollups' = TableWrite(rollups, w.rows)
    /\ steps' = Append(steps, [job |-> job, at |-> now.t, target |-> default,
                               ret |-> result'])
    /\ UNCHANGED <<now, raw, series, agg_func, found, angle, label>>

RunHourlyRollup ==
    RunJob("hourly_rollup", "hourly", DefaultHour(now.t), HourDelta, HourlyTable)

RunDailyRollup ==
    RunJob("daily_rollup", "daily", DefaultDay(now.t), DayDelta, DailyTable)

NextSched ==
    \/ Tick
    \/ RunHourlyRollup
    \/ RunDailyRollup

SpecSched == InitSched /\ [][NextSched]_vars

-----------------------------------------------------------------------------
(* Claims about the entry points, checked under Spec *)

PeriodLength == IF kind = "hourly" THEN TicksPerHour ELSE HoursPerDay * TicksPerHour

Entered == pc \in {"query", "aggregate", "write", "done"}

\* the rows of the queried station the raw table holds in [lo, hi)
RowsIn(lo, hi) == {r \in raw : r.station = station /\ lo <= r.time /\ r.time < hi}

\* the Reader has nothing to return: the engine failed, returned None, or the
\* window holds no row
ReaderHasNothing ==
    \/ fault.query \in {"none", "error"}
    \/ fault.query = "ok" /\ RowsIn(start_time.t, end_time.t) = {}

Writes == Len(SelectSeq(steps, LAMBDA x : x = "write"))

\* C1: whenever the Raw Data Reader signals no-data or failure (returns None),
\* the invocation of either entry point returns False and the Rollup Writer is
\* never invoked, so no rollup row is written.
C1_NoDataNoWrite ==
    (fault.query # "unset" /\ (ReaderHasNothing \/ df.kind = "none"))
        => /\ pc = "done"
           /\ df.kind = "none"
           /\ result = "False"
           /\ Writes = 0
           /\ rollups = <<>>

C1_Witness ==
    /\ pc = "done" /\ kind = "daily"
    /\ fault.query = "ok" /\ df.kind = "none" /\ result = "False"

\* C2: the steps of an invocation occur in the order query, aggregate, write,
\* with exactly one query and at most one write attempt, and when the Reader
\* returned a window the result is the Writer's success or failure.
C2_OrderAndResult ==
    /\ \E n \in 0..3 : steps = SubSeq(<<"query", "aggregate", "write">>, 1, n)
    /\ pc = "done" =>
          /\ steps \in {<<"query">>, <<"query", "aggregate", "write">>}
          /\ df.kind = "frame" =>
                /\ fault.write \in {"ok", "error"}
                /\ result = (IF fault.write = "ok" THEN "True" ELSE "False")
                /\ Len(rollups) = (IF fault.write = "ok" THEN 1 ELSE 0)

C2_Witness ==
    /\ pc = "done" /\ df.kind = "frame"
    /\ fault.write = "error" /\ result = "False" /\ Writes = 1

\* the period start is on an hour boundary (a day boundary for a daily period)
AlignedStart == start_time.t % PeriodLength = 0

\* the start of the hour the instant t lies in
HourOf(t) == t - (t % TicksPerHour)

\* the instants of the readings the Reader handed to the invocation
Handed == IF df.kind = "frame" THEN SeqRange(df.index) ELSE {}

\* the instants of the queried station's readings in the raw table
ReadingTimes == {r.time : r \in {x \in raw : x.station = station}}

\* C22: rollup windows are half-open and tile time: for period starts aligned
\* to hour boundaries every raw reading falls in exactly one hourly window
\* [H, H + 1h), the window of its own hour (a reading at H + 1h belongs to the
\* next hour only), and a daily window [D, D + 1d) holds exactly the readings
\* of the 24 hourly windows of that day.
C22_WindowsTile ==
    (pc \in {"aggregate", "write", "done"} /\ fault.query = "ok" /\ AlignedStart) =>
        /\ kind = "hourly" =>
               Handed = {t \in ReadingTimes : HourOf(t) = start_time.t}
        /\ kind = "daily" =>
               Handed = {t \in ReadingTimes :
                            \E h \in 0..(HoursPerDay - 1) :
                                HourOf(t) = start_time.t + h * TicksPerHour}

C22_Witness ==
    /\ pc = "done" /\ kind = "hourly" /\ station = "home" /\ fault.query = "ok"
    /\ start_time.t = TicksPerDay
    /\ {TicksPerDay, TicksPerDay + TicksPerHour} \subseteq ReadingTimes
    /\ TicksPerDay \in Handed
    /\ TicksPerDay + TicksPerHour \notin Handed

C4_ExplicitPeriod ==
    (Entered /\ now.kind = "unused") =>
        /\ start_time.t = target.t
        /\ end_time.t = target.t + PeriodLength
        /\ df.kind = "frame" =>
              SeqRange(df.index) = {r.time : r \in RowsIn(target.t, target.t + PeriodLength)}
        /\ Len(rollups) <= 1
        /\ \A i \in 1..Len(rollups) :
              /\ rollups[i].time = target.t
              /\ rollups[i].tags.station = station
              /\ rollups[i].table = (IF kind = "hourly" THEN HourlyTable ELSE DailyTable)

C4_Witness ==
    /\ pc = "done" /\ now.kind = "unused" /\ kind = "daily"
    /\ target.t = TicksPerDay + 1
    /\ Len(rollups) = 1 /\ rollups[1].time = TicksPerDay + 1
    /\ Len(df.index) >= 2

\* C5: with no explicit period start the resolved period is the most recently
\* completed one: its start is on a UTC hour boundary (hourly) or at UTC
\* midnight (daily) and end <= now < end + period length.
C5_DefaultPeriod ==
    (Entered /\ now.kind = "datetime") =>
        /\ start_time.t % PeriodLength = 0
        /\ end_time.t = start_time.t + PeriodLength
        /\ end_time.t <= now.t
        /\ now.t < end_time.t + PeriodLength
        /\ target.t = start_time.t

C5_Witness ==
    /\ pc = "query" /\ kind = "daily" /\ now.kind = "datetime"
    /\ now.t = 2 * TicksPerDay
    /\ start_time.t = TicksPerDay

-----------------------------------------------------------------------------
(* Claims about two invocations, checked under SpecTwo *)

\* the rows of invocation i's station the raw table holds in its period
RowsOf(i) ==
    {r \in raw : r.station = station[i]
                  /\ start_time[i].t <= r.time /\ r.time < end_time[i].t}

\* the query of invocation i failed (the engine raised)
QueryFailed(i) == fault[i].query = "error"

\* the query of invocation i succeeded and returned zero rows
QueryEmpty(i) == fault[i].query = "ok" /\ RowsOf(i) = {}

\* C12: the Raw Data Reader reports a connectivity/query failure distinctly
\* from a query that succeeded but returned zero rows: the value
\* _query_raw_data returns in the first case differs from the value it returns
\* in the second, and in neither case does it raise.
C12_FailureDistinct ==
    /\ \A i \in Invocations : result[i] # "raised"
    /\ \A i, j \in Invocations :
          (QueryFailed(i) /\ QueryEmpty(j)) => df[i] # df[j]

Done(i) == pc[i] = "done"

\* invocation i returned True: its write went through
Wrote(i) == Done(i) /\ result[i] = "True"

\* two invocations for the same station, period start and granularity
SameKey(i, j) ==
    /\ pc[i] # "idle" /\ pc[j] # "idle"
    /\ kind[i] = kind[j] /\ station[i] = station[j] /\ start_time[i] = start_time[j]

\* invocation i returned before invocation j was called
Before(i, j) ==
    \E a, b \in 1..Len(steps) :
        a < b /\ steps[a] = <<"return", i>> /\ steps[b] = <<"call", j>>

\* what a store that deduplicates by exact timestamp and tags holds of the
\* rows written: one row per table, timestamp and tag set
Deduplicated(store) == {<<store[i].table, store[i].time, store[i].tags>> : i \in 1..Len(store)}

\* C18: rollups are appended, never updated in place: invoking
\* compute_hourly_rollup twice in sequence for the same hour and station, with
\* raw data present and writes succeeding, performs two writes with the same
\* (station, period-start timestamp) key, so a store that does not
\* deduplicate holds two rows and a store that deduplicates by exact
\* timestamp and tags holds one.
C18_AppendOnly ==
    /\ Len(rollups) = Cardinality({i \in Invocations : Wrote(i)})
    /\ \A i, j \in Invocations :
          (/\ i # j /\ Before(i, j) /\ SameKey(i, j) /\ kind[i] = "hourly"
           /\ Wrote(i) /\ Wrote(j))
          => /\ Len(rollups) = 2
             /\ \A n \in 1..2 :
                   /\ rollups[n].table = HourlyTable
                   /\ rollups[n].time = start_time[i].t
                   /\ rollups[n].tags = [station |-> station[i]]
             /\ Cardinality(Deduplicated(rollups)) = 1

\* the previous hour of station home rolled up twice, one call after the other
C18_Witness ==
    /\ Before(1, 2) /\ SameKey(1, 2) /\ kind[1] = "hourly" /\ station[1] = "home"
    /\ now[1].kind = "datetime"
    /\ Wrote(1) /\ Wrote(2)
    /\ Len(rollups) = 2 /\ rollups[1] = rollups[2]

\* the row invocation i hands to the Rollup Writer
RowOf(i) ==
    [table |-> IF kind[i] = "hourly" THEN HourlyTable ELSE DailyTable,
     time |-> start_time[i].t,
     tags |-> [station |-> station[i]],
     fields |-> [k \in DOMAIN metrics[i] \ {"station"} |-> metrics[i][k]]]

\* C19: two invocations for the same (station, period start, granularity)
\* running concurrently share no mutable state: under every interleaving of
\* their query, compute and write steps each completes its own query and
\* write independently of the other (its window is the raw rows of its own
\* period, its result depends on its own query and write alone, its write
\* adds its own row), and, the raw store being immutable, both write the same
\* MetricsRecord with the same timestamp and station tag.
C19_Independent ==
    /\ \A i \in Invocations :
          /\ df[i].kind = "frame" => SeqRange(df[i].index) = {r.time : r \in RowsOf(i)}
          /\ Done(i) =>
                result[i] = (IF /\ fault[i].query = "ok" /\ RowsOf(i) # {}
                                /\ fault[i].write = "ok"
                             THEN "True" ELSE "False")
          /\ Wrote(i) => \E n \in 1..Len(rollups) : rollups[n] = RowOf(i)
    /\ Len(rollups) = Cardinality({i \in Invocations : Wrote(i)})
    /\ \A i, j \in Invocations :
          (i # j /\ SameKey(i, j) /\ Wrote(i) /\ Wrote(j)) =>
              /\ RowOf(i) = RowOf(j)
              /\ rollups = <<RowOf(i), RowOf(j)>>

\* two daily rollups of the same day overlap in time, one given the date and
\* one resolving it from the clock, and both write
C19_Witness ==
    /\ ~Before(1, 2) /\ ~Before(2, 1)
    /\ SameKey(1, 2) /\ kind[1] = "daily"
    /\ now[1].kind = "unused" /\ now[2].kind = "datetime"
    /\ Wrote(1) /\ Wrote(2)
    /\ Len(rollups) = 2 /\ rollups[1] = rollups[2]
    /\ Len(df[1].index) = 2

-----------------------------------------------------------------------------
(* Claims about _compute_rollup_metrics, checked under SpecAgg *)

\* the metric key vocabulary of the storage schema contract
Vocabulary ==
    {"low_temperature", "time_of_low_temperature", "high_temperature",
     "time_of_high_temperature", "average_temperature",
     "low_dew_point", "time_of_low_dew_point", "high_dew_point",
     "time_of_high_dew_point", "average_dew_point",
     "low_humidity", "time_of_low_humidity", "high_humidity",
     "time_of_high_humidity", "average_humidity",
     "low_wind_speed", "time_of_low_wind_speed", "high_avg_wind_speed",
     "time_of_high_avg_wind_speed", "average_wind_speed",
     "max_gust_speed", "time_of_max_gust", "max_gust_direction",
     "wind_speed_stdev", "average_wind_direction", "dominant_wind_direction",
     "wind_run_total",
     "low_pressure", "time_of_low_pressure", "high_pressure",
     "time_of_high_pressure", "average_pressure",
     "max_rain_rate", "time_of_max_rain_rate", "total_rainfall"}

\* the source column(s) each metric key is derived from
KeySources(k) ==
    CASE k \in {"low_temperature", "time_of_low_temperature", "high_temperature",
                "time_of_high_temperature", "average_temperature"}
            -> {"current_outside_temp"}
      [] k \in {"low_dew_point", "time_of_low_dew_point", "high_dew_point",
                "time_of_high_dew_point", "average_dew_point"}
            -> {"current_dew_point"}
      [] k \in {"low_humidity", "time_of_low_humidity", "high_humidity",
                "time_of_high_humidity", "average_humidity"}
            -> {"current_outside_humidity"}
      [] k \in {"low_wind_speed", "time_of_low_wind_speed", "high_avg_wind_speed",
                "time_of_high_avg_wind_speed", "average_wind_speed",
                "wind_speed_stdev", "wind_run_total"}
            -> {"current_wind_speed"}
      [] k \in {"max_gust_speed", "time_of_max_gust"} -> {"gust_speed"}
      [] k = "max_gust_direction" -> {"gust_speed", "max_wind_direction"}
      [] k \in {"average_wind_direction", "dominant_wind_direction"}
            -> {"current_wind_direction"}
      [] k \in {"low_pressure", "time_of_low_pressure", "high_pressure",
                "time_of_high_pressure", "average_pressure"}
            -> {"current_sea_level_pressure"}
      [] k \in {"max_rain_rate", "time_of_max_rain_rate"} -> {"current_rain_rate"}
      [] k = "total_rainfall" -> {"total_rain"}

PressureKeys ==
    {"low_pressure", "time_of_low_pressure", "high_pressure",
     "time_of_high_pressure", "average_pressure"}

\* rows of the window in which column c has a sample
Obs(frame, c) ==
    IF c \in frame.columns
    THEN {i \in 1..Len(frame.index) : ~IsNaN(frame.data[c][i])}
    ELSE {}

\* column c exists in the window and has at least one non-missing sample
HasSample(frame, c) == Obs(frame, c) # {}

Aggregated == pc = "aggregated"

\* C6 as stated: the aggregator does not fail and EVERY metric key is in the
\* record if and only if its source column(s) exist in the window and have at
\* least one non-missing sample.
C6_Original ==
    Aggregated =>
        /\ "station" \in DOMAIN metrics
        /\ \A k \in Vocabulary :
              k \in DOMAIN metrics <=> \A c \in KeySources(k) : HasSample(df, c)

\* C6 (amended): for every window the aggregator does not fail; each metric
\* key other than max_gust_direction is in the record if and only if its
\* source column exists in the window and has at least one non-missing sample;
\* max_gust_direction is in the record only if gust_speed and
\* max_wind_direction both do; a window lacking current_sea_level_pressure
\* yields no pressure key.
C6_KeyPresence ==
    Aggregated =>
        /\ "station" \in DOMAIN metrics
        /\ \A k \in Vocabulary \ {"max_gust_direction"} :
              k \in DOMAIN metrics <=> \A c \in KeySources(k) : HasSample(df, c)
        /\ "max_gust_direction" \in DOMAIN metrics =>
              \A c \in KeySources("max_gust_direction") : HasSample(df, c)
        /\ "current_sea_level_pressure" \notin df.columns =>
              PressureKeys \cap DOMAIN metrics = {}

C6_Witness ==
    /\ Aggregated
    /\ "current_sea_level_pressure" \notin df.columns
    /\ "low_temperature" \in DOMAIN metrics
    /\ "max_gust_speed" \in DOMAIN metrics
    /\ "max_gust_direction" \notin DOMAIN metrics
    /\ HasSample(df, "max_wind_direction")
    /\ \E i \in 1..Len(df.index) : IsNaN(df.data["current_outside_temp"][i])

\* C7: every value of a MetricsRecord is a defined float, a timestamp string or
\* a cardinal-direction string, never a missing or undefined value, for every
\* window, one with a single wind speed sample included.
C7_ValuesDefined ==
    Aggregated =>
        \A k \in DOMAIN metrics \ {"station"} :
            metrics[k].kind \in {"float", "time", "cardinal"}

\* all ten source columns have a sample at every timestamp
FullWindow(frame) ==
    /\ frame.columns = Columns
    /\ \A c \in Columns : Obs(frame, c) = 1..Len(frame.index)

\* C8: the keys the aggregator emits, station apart, are keys of the 35-key
\* vocabulary and fields declared in SENSOR_ROLLUP_FIELDS, and a window in
\* which all ten source columns have a sample at every timestamp yields exactly
\* the 35 vocabulary keys plus station.
C8_KeyVocabulary ==
    /\ Cardinality(Vocabulary) = 35
    /\ Cardinality(Columns) = 10
    /\ Aggregated =>
          /\ DOMAIN metrics \ {"station"} \subseteq Vocabulary
          /\ DOMAIN metrics \ {"station"} \subseteq DOMAIN SENSOR_ROLLUP_FIELDS
          /\ FullWindow(df) => DOMAIN metrics = Vocabulary \cup {"station"}

C8_Witness ==
    /\ Aggregated /\ FullWindow(df) /\ Len(df.index) >= 2
    /\ Cardinality(DOMAIN metrics) = 36

\* the five quantities summarised by low / high with time and average:
\* <<source column, low, time of low, high, time of high, average>>
Summaries ==
    {<<"current_outside_temp", "low_temperature", "time_of_low_temperature",
       "high_temperature", "time_of_high_temperature", "average_temperature">>,
     <<"current_dew_point", "low_dew_point", "time_of_low_dew_point",
       "high_dew_point", "time_of_high_dew_point", "average_dew_point">>,
     <<"current_outside_humidity", "low_humidity", "time_of_low_humidity",
       "high_humidity", "time_of_high_humidity", "average_humidity">>,
     <<"current_wind_speed", "low_wind_speed", "time_of_low_wind_speed",
       "high_avg_wind_speed", "time_of_high_avg_wind_speed", "average_wind_speed">>,
     <<"current_sea_level_pressure", "low_pressure", "time_of_low_pressure",
       "high_pressure", "time_of_high_pressure", "average_pressure">>}

\* the readings are whole numbers: the sample of column c in row i
Reading(frame, c, i) == frame.data[c][i].num

RECURSIVE SumReadings(_, _, _)
SumReadings(frame, c, I) ==
    IF I = {} THEN 0
    ELSE LET i == CHOOSE j \in I : TRUE
         IN  Reading(frame, c, i) + SumReadings(frame, c, I \ {i})

\* the time of the earliest row of I in which column c reads x
EarliestTime(frame, c, x) ==
    LET at == {frame.index[i] : i \in {j \in Obs(frame, c) : Reading(frame, c, j) = x}}
    IN  CHOOSE t \in at : \A u \in at : t <= u

IsWhole(v, x) == v.kind = "float" /\ v.root = 1 /\ v.num = x * v.den

IsTime(v, t) == v.kind = "time" /\ ParseIso(v.iso) = t

\* C10: for temperature, dew point, humidity, wind speed and pressure, the low
\* and the high are the minimum and the maximum of the non-missing samples,
\* their times are the timestamps of the first occurrence of each extreme, and
\* the average is the arithmetic mean of the non-missing samples.
C10_ExtremaAndMean ==
    Aggregated =>
        \A q \in Summaries :
            HasSample(df, q[1]) =>
                LET I == Obs(df, q[1])
                    lo == CHOOSE x \in {Reading(df, q[1], i) : i \in I} :
                              \A i \in I : x <= Reading(df, q[1], i)
                    hi == CHOOSE x \in {Reading(df, q[1], i) : i \in I} :
                              \A i \in I : x >= Reading(df, q[1], i)
                    avg == metrics[q[6]]
                IN  /\ {q[2], q[3], q[4], q[5], q[6]} \subseteq DOMAIN metrics
                    /\ IsWhole(metrics[q[2]], lo)
                    /\ IsTime(metrics[q[3]], EarliestTime(df, q[1], lo))
                    /\ IsWhole(metrics[q[4]], hi)
                    /\ IsTime(metrics[q[5]], EarliestTime(df, q[1], hi))
                    /\ avg.kind = "float" /\ avg.root = 1
                    /\ avg.num * Cardinality(I) = avg.den * SumReadings(df, q[1], I)

\* a three-row window whose second temperature sample is missing and whose
\* low and high occur at different times
C10_Witness ==
    /\ Aggregated
    /\ Len(df.index) = 3
    /\ HasSample(df, "current_outside_temp")
    /\ Cardinality(Obs(df, "current_dew_point")) = 2
    /\ IsNaN(df.data["current_outside_temp"][2])
    /\ metrics["time_of_low_temperature"] # metrics["time_of_high_temperature"]
    /\ metrics["average_pressure"].den = 2

\* the first row of the window at which gust_speed reads its maximum
MaxGustRow(frame) ==
    LET I == Obs(frame, "gust_speed")
        top == {i \in I : \A j \in I : Reading(frame, "gust_speed", j)
                                          <= Reading(frame, "gust_speed", i)}
    IN  CHOOSE i \in top : \A j \in top : i <= j

\* C11: max_gust_direction is emitted if and only if gust_speed has a
\* non-missing sample, the max_wind_direction column exists and the row at the
\* timestamp of the first maximum gust has a non-missing max_wind_direction;
\* its value is that row's max_wind_direction.  When that row has no direction
\* sample the key is skipped and the aggregation still completes with
\* max_gust_speed and time_of_max_gust present.
C11_GustDirection ==
    Aggregated =>
        LET emitted == /\ HasSample(df, "gust_speed")
                       /\ "max_wind_direction" \in df.columns
                       /\ ~IsNaN(df.data["max_wind_direction"][MaxGustRow(df)])
        IN  /\ "max_gust_direction" \in DOMAIN metrics <=> emitted
            /\ emitted =>
                  metrics["max_gust_direction"]
                      = df.data["max_wind_direction"][MaxGustRow(df)]
            /\ HasSample(df, "gust_speed") =>
                  /\ {"max_gust_speed", "time_of_max_gust"} \subseteq DOMAIN metrics
                  /\ IsWhole(metrics["max_gust_speed"],
                             Reading(df, "gust_speed", MaxGustRow(df)))
                  /\ IsTime(metrics["time_of_max_gust"], df.index[MaxGustRow(df)])

\* the maximum gust occurs in rows 1 and 3; row 1 has no direction sample and
\* row 3 has one: the key is skipped
C11_Witness ==
    /\ Aggregated /\ Len(df.index) = 3
    /\ HasSample(df, "gust_speed") /\ MaxGustRow(df) = 1
    /\ 3 \in Obs(df, "gust_speed")
    /\ Reading(df, "gust_speed", 3) = Reading(df, "gust_speed", 1)
    /\ "max_wind_direction" \in df.columns
    /\ IsNaN(df.data["max_wind_direction"][1])
    /\ ~IsNaN(df.data["max_wind_direction"][3])
    /\ "max_gust_direction" \notin DOMAIN metrics
    /\ "max_gust_speed" \in DOMAIN metrics

-----------------------------------------------------------------------------
(* Claims about the wind run and the rainfall total, checked under SpecAgg *)

\* the series of the speeds 2, 4, 6 sampled at consecutive instants
SpeedsTwoFourSix == [i \in 1..3 |-> [t |-> RowTime(i), v |-> Float(2 * i)]]

\* C16: wind_run_total equals mean(non-missing wind speed samples) x
\* (configured sampling interval in minutes / 60) x count(non-missing
\* samples), that is the sum of the samples times the interval in hours; it
\* depends on the sample values and the configured interval only, not on the
\* timestamps, so a gap in sampling does not change it; speeds [2,4,6] at a
\* 10 minute interval give 2.0.
C16_WindRun ==
    /\ CalculateWindRun(SpeedsTwoFourSix, Float(10)) = Float(2)
    /\ (Aggregated /\ HasSample(df, "current_wind_speed")) =>
          LET I == Obs(df, "current_wind_speed")
              run == metrics["wind_run_total"]
              avg == metrics["average_wind_speed"]
          IN  /\ run.kind = "float" /\ run.root = 1
              /\ run.num * SecondsPerMinute * MinutesPerHour
                    = run.den * WIND_INTERVAL * SumReadings(df, "current_wind_speed", I)
              /\ run = RatMul(RatMul(avg, Rat(WIND_INTERVAL, SecondsPerMinute * MinutesPerHour)),
                              Float(Cardinality(I)))

\* three rows, the wind speed of the second one missing: the run is that of
\* the two remaining samples, (3 + 4) * 10 s = 7/360
C16_Witness ==
    /\ Aggregated /\ Len(df.index) = 3
    /\ Obs(df, "current_wind_speed") = {1, 3}
    /\ Reading(df, "current_wind_speed", 1) = 3
    /\ Reading(df, "current_wind_speed", 3) = 4
    /\ metrics["wind_run_total"] = Rat(7, 360)

\* C17: total_rainfall equals the last non-missing total_rain sample minus
\* the first non-missing total_rain sample in time order, with no correction
\* for counter resets: it is independent of all intermediate samples, and it
\* is negative whenever the last sample is lower than the first.
C17_RainDelta ==
    (Aggregated /\ HasSample(df, "total_rain")) =>
        LET I == Obs(df, "total_rain")
            first == CHOOSE i \in I : \A j \in I : df.index[i] <= df.index[j]
            last == CHOOSE i \in I : \A j \in I : df.index[j] <= df.index[i]
            total == metrics["total_rainfall"]
        IN  /\ IsWhole(total, Reading(df, "total_rain", last) - Reading(df, "total_rain", first))
            /\ Reading(df, "total_rain", last) < Reading(df, "total_rain", first)
                  => total.num < 0

\* the counter reads 32, 31 or nothing, 31: the total is -1
C17_Witness ==
    /\ Aggregated /\ Len(df.index) = 3
    /\ {1, 3} \subseteq Obs(df, "total_rain")
    /\ Reading(df, "total_rain", 1) = 32
    /\ Reading(df, "total_rain", 3) = 31
    /\ metrics["total_rainfall"] = Float(-1)

-----------------------------------------------------------------------------
(* Claims about the wind direction metrics, checked under SpecDir *)

\* the whole-degree readings of current_wind_direction, in row order
DirReadings(frame) ==
    LET x == SelectSeq(frame.data["current_wind_direction"], LAMBDA v : ~IsNaN(v))
    IN  [i \in 1..Len(x) |-> x[i].num]

\* the index of the 22.5-degree sector of a whole-degree reading d: the
\* integer k nearest to d / 22.5, a reading halfway going to the even one
SectorIndex(d) ==
    CHOOSE k \in 0..16 :
        \/ Abs(4 * d - 90 * k) < 45
        \/ Abs(4 * d - 90 * k) = 45 /\ k % 2 = 0

\* the number of readings of r that fall in sector k
InSector(r, k) == Cardinality({i \in 1..Len(r) : SectorIndex(r[i]) = k})

\* the most frequent sectors of r
TopSectors(r) ==
    {k \in 0..16 : InSector(r, k) > 0 /\ \A j \in 0..16 : InSector(r, j) <= InSector(r, k)}

\* C13: when two or more 22.5-degree sector buckets are equally most frequent
\* among the non-missing current_wind_direction samples,
\* dominant_wind_direction is the cardinal label of the tied bucket with the
\* lowest degree value, independent of the order of the samples in the window.
C13_TieBreak ==
    (Aggregated /\ HasSample(df, "current_wind_direction")) =>
        LET top == TopSectors(DirReadings(df))
            low == CHOOSE k \in top : \A j \in top : k <= j
        IN  /\ "dominant_wind_direction" \in DOMAIN metrics
            /\ metrics["dominant_wind_direction"]
                  = [kind |-> "cardinal", label |-> Directions[(low % 16) + 1]]

\* sectors 180 (S) and 90 (E) tie, S sampled first: the label is E
C13_Witness ==
    /\ Aggregated
    /\ DirReadings(df) = <<180, 100, 180, 100>>
    /\ TopSectors(DirReadings(df)) = {4, 8}
    /\ metrics["dominant_wind_direction"].label = "E"

\* the number of readings of r whose Cardinal Mapper label is the label at
\* index i of the table: sector indices 0 and 16 are both N
WithLabel(r, i) ==
    Cardinality({j \in 1..Len(r) : Directions[(SectorIndex(r[j]) % 16) + 1] = Directions[i]})

\* C21: dominant_wind_direction names the most frequently occurring of the 16
\* compass sectors: for every non-empty sequence of direction samples in
\* [0, 360), no other cardinal label is the Cardinal Mapper label of strictly
\* more samples than the emitted label is (samples near north that bucket to
\* 0 degrees and to 360 degrees count toward the same sector N).
C21_MostFrequentSector ==
    (Aggregated /\ HasSample(df, "current_wind_direction")) =>
        LET r == DirReadings(df)
            e == CHOOSE i \in 1..16 :
                     Directions[i] = metrics["dominant_wind_direction"].label
        IN  \A i \in 1..16 : WithLabel(r, i) <= WithLabel(r, e)

\* a float of the model lies in [0, 360)
AngleInRange(v) ==
    IF "form" \in DOMAIN v THEN 0 <= v.lo /\ v.hi <= 360
    ELSE 0 <= v.num /\ v.num < 360 * v.den

\* a float of the model lies within one degree of direction d on the circle
AngleNear(v, d) ==
    IF "form" \in DOMAIN v
    THEN \E m \in {d - 360, d, d + 360} : m - 1 <= v.lo /\ v.hi <= m + 1
    ELSE \E m \in {d - 360, d, d + 360} :
            (m - 1) * v.den <= v.num /\ v.num <= (m + 1) * v.den

\* C15: for every non-empty sequence of non-missing current_wind_direction
\* samples, average_wind_direction lies in [0, 360), strictly below 360, and
\* is the vector mean, not the arithmetic mean: the mean of 350 and 10 is
\* approximately 0 and not 180.
C15_CircularMean ==
    (Aggregated /\ HasSample(df, "current_wind_direction")) =>
        /\ "average_wind_direction" \in DOMAIN metrics
        /\ AngleInRange(metrics["average_wind_direction"])
        /\ DirReadings(df) \in {<<350, 10>>, <<10, 350>>} =>
              /\ AngleNear(metrics["average_wind_direction"], 0)
              /\ ~AngleNear(metrics["average_wind_direction"], 180)

-----------------------------------------------------------------------------
(* Claims about _get_cardinal_direction, checked under SpecCardinal *)

Mapped == pc = "mapped"

\* the argument in quarters of a degree
Quarters(v) == (v.num * 4) \div v.den

\* C14: for every degree value, negative values and values of 360 and more
\* included, _get_cardinal_direction returns one of the 16 fixed labels, the
\* one at index round_half_even(degrees / 22.5) mod 16: the label of the
\* multiple of 22.5 nearest to the argument, an argument halfway between two
\* going to the even multiple; cardinal(0) = N, cardinal(359) = N,
\* cardinal(180) = S and cardinal(100) = E.
C14_CardinalMapper ==
    Mapped =>
        /\ label.kind = "cardinal"
        /\ \E i \in 1..16 : label.label = Directions[i]
        /\ \E m \in -(MaxDegrees \div 22 + 1) .. (MaxDegrees \div 22 + 1) :
              /\ Abs(Quarters(angle) - 90 * m) <= 45
              /\ Abs(Quarters(angle) - 90 * m) = 45 => m % 2 = 0
              /\ label.label = Directions[(m % 16) + 1]
        /\ angle = Float(0) => label.label = "N"
        /\ angle = Float(359) => label.label = "N"
        /\ angle = Float(180) => label.label = "S"
        /\ angle = Float(100) => label.label = "E"

\* -33.75 is halfway between -45 and -22.5 and maps to NW, the label of -45
C14_Witness ==
    /\ Mapped /\ angle = Rat(-135, 4) /\ label.label = "NW"

-----------------------------------------------------------------------------
(* Claims about _find_value_with_time, checked under SpecLocate *)

Located == pc = "located"

NoMissing(s) == \A i \in 1..Len(s) : ~IsNaN(s[i].v)

\* C9: for every non-empty series without missing values in ascending time
\* order, and for MIN and MAX alike, _find_value_with_time returns the extreme
\* value together with the earliest timestamp at which that value occurs.
C9_EarliestExtreme ==
    (Located /\ Len(series) > 0 /\ NoMissing(series)) =>
        LET nums == {series[i].v.num : i \in 1..Len(series)}
            ext == IF agg_func = "min"
                   THEN CHOOSE x \in nums : \A y \in nums : x <= y
                   ELSE CHOOSE x \in nums : \A y \in nums : x >= y
            at == {series[i].t : i \in {j \in 1..Len(series) : series[j].v.num = ext}}
        IN  /\ \A i \in 1..(Len(series) - 1) : series[i].t < series[i + 1].t
            /\ IsWhole(found[1], ext)
            /\ IsTime(found[2], CHOOSE t \in at : \A u \in at : t <= u)

\* the series [(t1,2),(t2,3),(t3,3),(t4,1)]: MAX is 3 at t2, not t3
C9_Witness ==
    /\ Located /\ agg_func = "max" /\ Len(series) = 4 /\ NoMissing(series)
    /\ [i \in 1..4 |-> series[i].v.num] = <<2, 3, 3, 1>>
    /\ IsTime(found[2], series[2].t)

\* C20: _find_value_with_time returns (None, None) when the input series is
\* empty or consists only of missing values, for both MIN and MAX, and returns
\* a non-None value and a non-None timestamp for every series that has at
\* least one non-missing sample.
C20_NoneOnlyWhenEmpty ==
    Located =>
        IF \A i \in 1..Len(series) : series[i].v.kind = "nan"
        THEN found = <<None, None>>
        ELSE /\ Len(found) = 2
             /\ found[1].kind = "float"
             /\ found[2].kind = "time"
             /\ \E i \in 1..Len(series) : IsTime(found[2], series[i].t)

\* a series of three whose first and last values are missing
C20_Witness ==
    /\ Located /\ agg_func = "min" /\ Len(series) = 3
    /\ IsNaN(series[1].v) /\ ~IsNaN(series[2].v) /\ IsNaN(series[3].v)
    /\ found[1] = series[2].v
    /\ IsTime(found[2], series[2].t)

-----------------------------------------------------------------------------
(* Claims about the scheduled jobs, checked under SpecSched *)

\* the finished invocations of the given job that targeted the period at T
InvocationsOf(job, T) ==
    {i \in 1..Len(steps) : steps[i].job = job /\ steps[i].target = T}

\* the starts of the hours and of the days completed while the scheduler is
\* followed, the hour and the day before its start included
CompletedHours ==
    {H \in (SchedStart - TicksPerHour)..(SchedEnd - TicksPerHour) : H % TicksPerHour = 0}

CompletedDays ==
    {D \in (SchedStart - TicksPerDay)..(SchedEnd - TicksPerDay) : D % TicksPerDay = 0}

\* the trigger of the job that fires at instant F has fired and its run is over
FiringOver(job, F) == now.t > F \/ (now.t = F /\ job \notin pc)

\* the rollup table holds a row for the period of table tbl that starts at T
HasRollup(tbl, T) ==
    \E i \in 1..Len(rollups) : rollups[i].table = tbl /\ rollups[i].time = T

\* the period at T is targeted by at most one invocation of the job, by
\* exactly one once the firing at F is over, and that one ran at F
TargetedOnce(job, T, F) ==
    /\ Cardinality(InvocationsOf(job, T)) <= 1
    /\ FiringOver(job, F) => Cardinality(InvocationsOf(job, T)) = 1
    /\ \A i \in InvocationsOf(job, T) : steps[i].at = F

-----------------------------------------------------------------------------
(* Claims about two windows, checked under SpecPair *)

Paired == pc = "paired"

\* the two windows agree on column c: both lack it, or both hold the same
\* samples in it
Agree(c) ==
    /\ c \in df[1].columns <=> c \in df[2].columns
    /\ c \in df[1].columns => df[1].data[c] = df[2].data[c]

\* the two records agree on key k: both lack it, or both hold the same value
SameMetric(k) ==
    /\ k \in DOMAIN metrics[1] <=> k \in DOMAIN metrics[2]
    /\ k \in DOMAIN metrics[1] => metrics[1][k] = metrics[2][k]

\* C24: per-quantity independence: for two windows over the same timestamps
\* that agree on a source column, the metrics derived from that column are
\* identical whatever the other columns contain (present, absent, or missing
\* in any rows); max_gust_direction, the only metric that depends on two
\* columns, is identical when the windows agree on gust_speed and on
\* max_wind_direction.
C24_PerQuantityIndependence ==
    (Paired /\ df[1].index = df[2].index) =>
        \A k \in Vocabulary :
            (\A c \in KeySources(k) : Agree(c)) => SameMetric(k)

\* two windows that share gust_speed only: the gust maximum and its time are
\* the same, the gust direction is not
C24_Witness ==
    /\ Paired
    /\ Agree("gust_speed") /\ HasSample(df[1], "gust_speed")
    /\ ~Agree("max_wind_direction") /\ ~Agree("current_outside_temp")
    /\ SameMetric("max_gust_speed") /\ SameMetric("time_of_max_gust")
    /\ "max_gust_direction" \in DOMAIN metrics[1]
    /\ ~SameMetric("max_gust_direction")
    /\ "average_temperature" \in DOMAIN metrics[1]
    /\ ~SameMetric("average_temperature")

====
